---- MODULE Spec2Model ----
(***************************************************************************)
(* Model of the Snap Hutao / Starward UIGF converter:                      *)
(*   process_metadata.py  - the item metadata store (StarwardMetaDB), the  *)
(*                          mapping importer, the merge engine, the        *)
(*                          completion resolver (wizard and CLI) and the   *)
(*                          reconciliation run merge_mapping_and_starward  *)
(*   sh_to_starward.py    - the converter convert_snap_hutao_to_starward   *)
(*                                                                         *)
(* Python values.  An Optional[str] is a string; Python's None is the      *)
(* reserved string None below, which is no member of any data set of the   *)
(* model.  A dict is the sequence of its items in insertion order, each    *)
(* item a record [key, val]; a key occurs at most once.                   *)
(* The two item types of the program are the Chinese words for "weapon"    *)
(* and "character"; they are written in ASCII here.                        *)
(***************************************************************************)
EXTENDS Naturals, Sequences, FiniteSets

VARIABLES
    db,        \* SpecStore: the StarwardMetaDB operated on (its by_id dict)
    op,        \* SpecStore: the operation that produced db
    offer,     \* SpecStore: the last operation offered a different non-empty
               \*            value for a field that was already non-empty
    call,      \* SpecTwice: the operation applied and its argument
    applied,   \* SpecTwice: how many times it has been applied
    before,    \* SpecTwice: the store before the first application
    once,      \* SpecTwice: the store after the first application
    snap,      \* SpecConvert: the SnapHutaoUIGF document to convert
    conv,      \* SpecConvert: "ready", then "returned" or "raised"
    out,       \* SpecConvert: <<the StarwardUIGF returned>>, << >> when none is
    err,       \* SpecConvert: the item id the error names, None when none is
    \* Spec and SpecLayers: a run of merge_mapping_and_starward; db is base_db
    meta_file,     \* the store file on disk
    meta_file0,    \* the store file on disk when the run started
    mapping_file,  \* the mapping file
    starward_file, \* the export file
    tk,            \* whether tkinter is there (the wizard) or not (the CLI)
    pc,            \* "start", "wizard", "cli", "done", or "error" (it raised)
    mapping_db,    \* the store built from the mapping file
    merged,        \* base_db when the resolver was called
    pending,       \* the keys of `pending`, in its order
    index,         \* MetaFillWizard.index; the entry the CLI is at
    phase,         \* the CLI's prompt: "type" or "rank"
    ended,         \* how the resolver ended
    written,       \* the fields the resolver has written: [key, field, value]
    clash,         \* the last step was a submit that selected another value
                   \* for a filled field: "prefilled", "resubmitted", or "none"
    event,         \* the handler the last step ran, with what it showed or asked
    \* SpecShare: two stores as Python holds them, dicts of references
    heap,      \* the StarwardMetaItem objects; a reference is an index of heap
    target,    \* by_id of the store merged into: items [key, val], val a reference
    source,    \* by_id of the store merged from
    source0,   \* the source store's entries when the run started
    copied,    \* the keys merge_meta_db has created in target
    \* SpecFile: a call of convert_snap_file_with_meta; db, snap and out are its
    \* locals db, snap and starward_uigf
    meta_db_file,      \* the store file
    snap_file,         \* the Snap Hutao file
    out_starward_file, \* the output file
    out_file0,         \* the output file when the call started
    line               \* the statement of the body the call is at

storeVars == <<op, offer>>
twiceVars == <<call, applied, before, once>>
convVars == <<snap, conv, out, err>>
fileVars == <<meta_file0, mapping_file, starward_file, tk>>
runVars == <<meta_file, fileVars, pc, mapping_db, merged, pending, index, phase,
             ended, written, clash, event>>
shareVars == <<heap, target, source, source0, copied>>
callVars == <<meta_db_file, snap_file, out_starward_file, out_file0, line>>
vars == <<db, storeVars, twiceVars, convVars, runVars, shareVars, callVars>>

\* The variables a specification leaves alone.
exceptStore == <<twiceVars, convVars, runVars, shareVars, callVars>>
exceptTwice == <<storeVars, convVars, runVars, shareVars, callVars>>
exceptConv == <<storeVars, twiceVars, runVars, shareVars, callVars>>
exceptRun == <<storeVars, twiceVars, convVars, shareVars, callVars>>
exceptShare == <<db, storeVars, twiceVars, convVars, runVars, callVars>>
exceptCall == <<storeVars, twiceVars, runVars, shareVars>>

\* The variables of a specification that does not use them.
IdleStore == op = "init" /\ offer = FALSE
IdleTwice == call = "none" /\ applied = 0 /\ before = << >> /\ once = << >>
IdleConv == snap = << >> /\ conv = "idle" /\ out = << >> /\ err = "None"
IdleRun ==
    /\ meta_file = << >> /\ meta_file0 = << >> /\ mapping_file = << >>
    /\ starward_file = << >> /\ tk = TRUE /\ pc = "idle" /\ mapping_db = << >>
    /\ merged = << >> /\ pending = << >> /\ index = 0 /\ phase = "none"
    /\ ended = "none" /\ written = {} /\ clash = "none" /\ event = "none"
IdleShare ==
    /\ heap = << >> /\ target = << >> /\ source = << >> /\ source0 = << >>
    /\ copied = {}
IdleCall ==
    /\ meta_db_file = << >> /\ snap_file = << >> /\ out_starward_file = << >>
    /\ out_file0 = << >> /\ line = 0

None == "None"

\* Python truthiness of an Optional[str]: `not v`.
Falsy(v) == v = None \/ v = ""

\* Python's `a or b` on an Optional[str].
PyOr(a, b) == IF Falsy(a) THEN b ELSE a

ITEM_TYPES == <<"weapon", "character">>
RANK_CHOICES == <<"1", "2", "3", "4", "5">>

Range(s) == {s[i] : i \in 1..Len(s)}

-----------------------------------------------------------------------------
(* The data the model ranges over.                                         *)

ItemIds == {"2", "10"}
Names == {"A", "B"}
TypeVals == {"weapon", "character"}
RankVals == {"4", "5"}

\* The fields of a StarwardMetaItem.
MetaNames == Names \cup {""}
MetaTypes == TypeVals \cup {None, ""}
MetaRanks == RankVals \cup {None}

StarwardMetaItem(n, t, r, i) ==
    [name |-> n, item_type |-> t, rank_type |-> r, item_id |-> i]

MetaItems(i) ==
    {StarwardMetaItem(n, t, r, i) : n \in MetaNames, t \in MetaTypes, r \in MetaRanks}

\* The fields of a StarwardRecord the store reads.
StarwardRecord(i, n, t, r) ==
    [item_id |-> i, name |-> n, item_type |-> t, rank_type |-> r]

-----------------------------------------------------------------------------
(* StarwardMetaDB: the by_id dict.                                         *)

Keys(d) == {d[i].key : i \in 1..Len(d)}

Has(d, k) == k \in Keys(d)

KeyIndex(d, k) == CHOOSE i \in 1..Len(d) : d[i].key = k

\* Python's None where a StarwardMetaItem is expected (an item's item_id is a
\* str, never None).
NoneMeta == StarwardMetaItem(None, None, None, None)

\* StarwardMetaDB.get: the entry, or None.
Get(d, k) == IF Has(d, k) THEN d[KeyIndex(d, k)].val ELSE NoneMeta

\* by_id[k] = m: a new key goes last, an old key keeps its place.
Put(d, k, m) ==
    IF Has(d, k)
    THEN [d EXCEPT ![KeyIndex(d, k)].val = m]
    ELSE Append(d, [key |-> k, val |-> m])

EmptyDB == << >>

\* An item of a dict.
Item(k, m) == [key |-> k, val |-> m]

\* A mutation of FillIfEmpty: the offered value overwrites.
FillOverwrite(cur, offered) == IF ~Falsy(offered) THEN offered ELSE cur

\* `if (not meta.f) and rec.f: meta.f = rec.f`, the value of meta.f afterwards.
FillIfEmpty(cur, offered) ==
    IF Falsy(cur) /\ ~Falsy(offered) THEN offered ELSE cur

\* A mutation of FillMeta: `elif` for `if`, so one call fills one field only.
FillMetaElif(meta, n, t, r) ==
    IF Falsy(meta.name) /\ ~Falsy(n) THEN [meta EXCEPT !.name = n]
    ELSE IF Falsy(meta.item_type) /\ ~Falsy(t) THEN [meta EXCEPT !.item_type = t]
    ELSE [meta EXCEPT !.rank_type = FillIfEmpty(@, r)]

\* The three fills of an existing entry, in the order of the code.
FillMeta(meta, n, t, r) ==
    [meta EXCEPT !.name = FillIfEmpty(@, n),
                 !.item_type = FillIfEmpty(@, t),
                 !.rank_type = FillIfEmpty(@, r)]

\* A mutation of add_from_record: `if rec.item_id is None` for `if not
\* rec.item_id`.
add_from_record_is_none(d, rec) ==
    IF rec.item_id = None THEN d
    ELSE LET iid == rec.item_id IN
         IF ~Has(d, iid)
         THEN Put(d, iid,
                  StarwardMetaItem(PyOr(rec.name, ""), rec.item_type,
                                   rec.rank_type, iid))
         ELSE Put(d, iid,
                  FillMeta(Get(d, iid), rec.name, rec.item_type, rec.rank_type))

\* StarwardMetaDB.add_from_record: the store after the call.
add_from_record(d, rec) ==
    IF Falsy(rec.item_id) THEN d
    ELSE LET iid == rec.item_id IN
         IF ~Has(d, iid)
         THEN Put(d, iid,
                  StarwardMetaItem(PyOr(rec.name, ""), rec.item_type,
                                   rec.rank_type, iid))
         ELSE Put(d, iid,
                  FillMeta(Get(d, iid), rec.name, rec.item_type, rec.rank_type))

\* A mutation of MergeItem: the new entry takes the source entry's item_id
\* (`item_id=s.item_id` for `item_id=str(iid)`).
MergeItemVerbatim(into, iid, s) ==
    IF ~Has(into, iid)
    THEN Put(into, iid,
             StarwardMetaItem(PyOr(s.name, ""), s.item_type, s.rank_type, s.item_id))
    ELSE Put(into, iid, FillMeta(Get(into, iid), s.name, s.item_type, s.rank_type))

\* One iteration of the loop of merge_meta_db, on the item (iid, s) of src.
MergeItem(into, iid, s) ==
    IF ~Has(into, iid)
    THEN Put(into, iid,
             StarwardMetaItem(PyOr(s.name, ""), s.item_type, s.rank_type, iid))
    ELSE Put(into, iid, FillMeta(Get(into, iid), s.name, s.item_type, s.rank_type))

RECURSIVE MergeFrom(_, _, _)
\* The loop of merge_meta_db from the i-th item of src on.
MergeFrom(into, src, i) ==
    IF i > Len(src) THEN into
    ELSE MergeFrom(MergeItem(into, src[i].key, src[i].val), src, i + 1)

\* merge_meta_db: the store `into` after the call.
merge_meta_db(into, src) == MergeFrom(into, src, 1)


-----------------------------------------------------------------------------
(* SpecStore: any sequence of add_from_record and merge_meta_db on a store. *)

\* The records offered to add_from_record.
Records ==
    {StarwardRecord(i, n, t, r) :
        i \in ItemIds, n \in Names \cup {None}, t \in MetaTypes, r \in MetaRanks}
    \cup {StarwardRecord(None, "A", "weapon", "5"),
          StarwardRecord("", "B", "character", "4")}

OneEntryStores ==
    UNION {{<<[key |-> i, val |-> m]>> : m \in MetaItems(i)} : i \in ItemIds}

\* The entries of the two-entry stores.
PairMetas(i) ==
    {StarwardMetaItem("", None, None, i),
     StarwardMetaItem("A", "", "5", i),
     StarwardMetaItem("B", "character", "4", i)}

TwoEntryStores ==
    {<<[key |-> i, val |-> m], [key |-> j, val |-> n]>> :
        <<i, j>> \in {<<"2", "10">>, <<"10", "2">>},
        <<m, n>> \in PairMetas("2") \X PairMetas("10")}

\* A store file may hold an entry whose item_id is not the key it is under.
MiskeyedStores ==
    {<<[key |-> "2", val |-> StarwardMetaItem("A", None, "4", "10")]>>}

\* The source stores offered to merge_meta_db.
SrcStores == {EmptyDB} \cup OneEntryStores \cup TwoEntryStores \cup MiskeyedStores

\* Whether (n, t, r), offered for key k, differs from a non-empty field of d[k].
Offers(d, k, n, t, r) ==
    /\ Has(d, k)
    /\ LET meta == Get(d, k) IN
       \/ ~Falsy(meta.name) /\ ~Falsy(n) /\ n # meta.name
       \/ ~Falsy(meta.item_type) /\ ~Falsy(t) /\ t # meta.item_type
       \/ ~Falsy(meta.rank_type) /\ ~Falsy(r) /\ r # meta.rank_type

InitStore ==
    /\ db \in {EmptyDB} \cup MiskeyedStores
    /\ op = "init"
    /\ offer = FALSE
    /\ IdleTwice /\ IdleConv /\ IdleRun /\ IdleShare /\ IdleCall

AddFromRecord ==
    \E rec \in Records :
        /\ db' = add_from_record(db, rec)
        /\ op' = "add_from_record"
        /\ offer' = (~Falsy(rec.item_id)
                     /\ Offers(db, rec.item_id, rec.name, rec.item_type, rec.rank_type))
        /\ UNCHANGED exceptStore

MergeMetaDb ==
    \E src \in SrcStores :
        /\ db' = merge_meta_db(db, src)
        /\ op' = "merge_meta_db"
        /\ offer' = \E i \in 1..Len(src) :
                        Offers(db, src[i].key, src[i].val.name,
                               src[i].val.item_type, src[i].val.rank_type)
        /\ UNCHANGED exceptStore

NextStore == AddFromRecord \/ MergeMetaDb

SpecStore == InitStore /\ [][NextStore]_vars

\* The fields of the entry under k that are non-empty in d have the same value in e.
KeepsFilled(d, e, k) ==
    /\ Has(e, k)
    /\ ~Falsy(Get(d, k).name) => Get(e, k).name = Get(d, k).name
    /\ ~Falsy(Get(d, k).item_type) => Get(e, k).item_type = Get(d, k).item_type
    /\ ~Falsy(Get(d, k).rank_type) => Get(e, k).rank_type = Get(d, k).rank_type

\* C1: no step of add_from_record or merge_meta_db changes a field (name,
\* item_type, rank_type) of an entry that is non-empty before the step, whatever
\* value the record or the source store offers; so a field, once non-empty, has
\* that value in every later state.
C1_FillOnly == [][\A k \in Keys(db) : KeepsFilled(db, db', k)]_vars

\* C1: an operation offered a different non-empty value for a filled field.
C1_Witness == op # "init" /\ offer

-----------------------------------------------------------------------------
(* SpecTwice: one operation of the merge engine, applied again and again   *)
(* with the same argument to a store.                                      *)

MaxApply == 2

\* The operations and their arguments.
Calls ==
    {[fn |-> "merge_meta_db", arg |-> src] : src \in SrcStores}
    \cup {[fn |-> "add_from_record", arg |-> rec] : rec \in Records}

\* The store d after the call c.
ApplyCall(c, d) ==
    IF c.fn = "merge_meta_db" THEN merge_meta_db(d, c.arg)
    ELSE add_from_record(d, c.arg)

InitTwice ==
    /\ db \in SrcStores
    /\ call \in Calls
    /\ applied = 0
    /\ before = db
    /\ once = db
    /\ IdleStore /\ IdleConv /\ IdleRun /\ IdleShare /\ IdleCall

Apply ==
    /\ applied < MaxApply
    /\ db' = ApplyCall(call, db)
    /\ applied' = applied + 1
    /\ once' = IF applied = 0 THEN db' ELSE once
    /\ UNCHANGED <<call, before, exceptTwice>>

NextTwice == Apply

SpecTwice == InitTwice /\ [][NextTwice]_vars

\* C4: merge_meta_db applied again with the same source, and add_from_record
\* applied again with the same record, leave the store as it was after the
\* first application.
C4_Idempotent == applied >= 1 => db = once

\* C4: a merge that changed the store has been applied a second time.
C4_Witness == applied = 2 /\ call.fn = "merge_meta_db" /\ once # before

\* C14: after merge_meta_db(T, S), the keys of T are its former keys and the
\* keys of S, and under every key of S that was not a key of T, T holds an
\* entry equal to S's in item_id, name, item_type and rank_type.
C14_CopiesVerbatim ==
    (applied >= 1 /\ call.fn = "merge_meta_db") =>
        /\ Keys(once) = Keys(before) \cup Keys(call.arg)
        /\ \A k \in Keys(call.arg) \ Keys(before) : Get(once, k) = Get(call.arg, k)

\* C19: add_from_record with a record whose item_id is None or "" leaves the
\* store as it is; with an item_id that is no key it adds one entry under that
\* id, after the others, with the record's name ("" when it has none),
\* item_type and rank_type, and leaves every other entry as it is.
C19_AddNewOrNothing ==
    (applied >= 1 /\ call.fn = "add_from_record") =>
        LET rec == call.arg IN
        IF Falsy(rec.item_id) THEN once = before
        ELSE ~Has(before, rec.item_id) =>
                /\ Len(once) = Len(before) + 1
                /\ SubSeq(once, 1, Len(before)) = before
                /\ once[Len(once)] =
                      Item(rec.item_id,
                           StarwardMetaItem(IF rec.name = None THEN "" ELSE rec.name,
                                            rec.item_type, rec.rank_type, rec.item_id))

\* C19: a record with a new item_id and no name was added to a store that had
\* an entry.
C19_Witness ==
    /\ applied >= 1
    /\ call.fn = "add_from_record"
    /\ before # EmptyDB
    /\ ~Falsy(call.arg.item_id)
    /\ ~Has(before, call.arg.item_id)
    /\ call.arg.name = None
    /\ Len(once) = 2

-----------------------------------------------------------------------------
(* sh_to_starward.py: the converter.                                       *)

EmptyDict == << >>

\* A SnapHutaoRecord as model_validate builds it: the declared fields, and in
\* model_extra the members of the JSON object that are no declared field
\* (Config.extra = "allow" keeps them there, not in the field named extra).
SnapHutaoRecord(u, g, i, t, id, e, x) ==
    [uigf_gacha_type |-> u, gacha_type |-> g, item_id |-> i, time |-> t,
     id |-> id, extra |-> e, model_extra |-> x]

\* timezone, an Optional[int], is << >> for None and <<z>> for the integer z.
SnapHutaoUserBundle(uid, tz, l) == [uid |-> uid, timezone |-> tz, list |-> l]

\* dict.copy() and d[k] = v.
SetItem(d, k, v) ==
    IF \E i \in 1..Len(d) : d[i].key = k
    THEN [i \in 1..Len(d) |-> IF d[i].key = k THEN [key |-> k, val |-> v] ELSE d[i]]
    ELSE Append(d, [key |-> k, val |-> v])

\* `meta is None or meta.item_type is None or meta.rank_type is None`
Unresolved(meta) ==
    \/ meta = NoneMeta
    \/ meta.item_type = None
    \/ meta.rank_type = None

\* A mutation of RecKwargs: the extra bag is never carried over.
RecKwargsNoExtra(srec, uid, meta) ==
    [uigf_gacha_type |-> srec.uigf_gacha_type, gacha_type |-> srec.gacha_type,
     item_id |-> srec.item_id, time |-> srec.time, id |-> srec.id, uid |-> uid,
     name |-> meta.name, item_type |-> meta.item_type,
     rank_type |-> meta.rank_type, count |-> "1", lang |-> "zh-cn",
     extra |-> EmptyDict, model_extra |-> EmptyDict]

\* The StarwardRecord built from rec_kwargs: extra is in rec_kwargs when the
\* source's extra is a non-empty dict, and is the default {} otherwise; no
\* other key is in rec_kwargs, so the record's model_extra is empty.
RecKwargs(srec, uid, meta) ==
    [uigf_gacha_type |-> srec.uigf_gacha_type, gacha_type |-> srec.gacha_type,
     item_id |-> srec.item_id, time |-> srec.time, id |-> srec.id, uid |-> uid,
     name |-> meta.name, item_type |-> meta.item_type,
     rank_type |-> meta.rank_type, count |-> "1", lang |-> "zh-cn",
     extra |-> IF Len(srec.extra) > 0 THEN srec.extra ELSE EmptyDict,
     model_extra |-> EmptyDict]

\* The body of the inner loop for one record: the record, or the raise.
ConvertRecord(srec, uid, d) ==
    LET iid == IF srec.item_id # None THEN srec.item_id ELSE None
        meta == IF iid # None THEN Get(d, iid) ELSE NoneMeta
    IN  IF Unresolved(meta)
        THEN [raised |-> TRUE, iid |-> iid]
        ELSE [raised |-> FALSE, rec |-> RecKwargs(srec, uid, meta)]

RECURSIVE ConvertListReversed(_, _, _, _, _)
\* A mutation of ConvertList: `bundle.list.insert(0, rec)` for append.
ConvertListReversed(list, uid, d, i, acc) ==
    IF i > Len(list) THEN [raised |-> FALSE, list |-> acc]
    ELSE LET r == ConvertRecord(list[i], uid, d) IN
         IF r.raised THEN r
         ELSE ConvertListReversed(list, uid, d, i + 1, <<r.rec>> \o acc)

RECURSIVE ConvertList(_, _, _, _, _)
\* The inner loop from the i-th record of the bundle on; acc is bundle.list.
ConvertList(list, uid, d, i, acc) ==
    IF i > Len(list) THEN [raised |-> FALSE, list |-> acc]
    ELSE LET r == ConvertRecord(list[i], uid, d) IN
         IF r.raised THEN r
         ELSE ConvertList(list, uid, d, i + 1, Append(acc, r.rec))

RECURSIVE ConvertBundles(_, _, _, _)
\* The outer loop from the i-th user bundle on; acc is out.hk4e.
ConvertBundles(hk4e, d, i, acc) ==
    IF i > Len(hk4e) THEN [raised |-> FALSE, hk4e |-> acc]
    ELSE LET user == hk4e[i]
             r == ConvertList(user.list, user.uid, d, 1, << >>)
         IN  IF r.raised THEN r
             ELSE ConvertBundles(hk4e, d, i + 1,
                      Append(acc, [uid |-> user.uid, timezone |-> user.timezone,
                                   lang |-> "zh-cn", list |-> r.list]))

\* convert_snap_hutao_to_starward: the StarwardUIGF returned, or the raise.
convert_snap_hutao_to_starward(snap_uigf, sw_meta_db) ==
    LET export_info == SetItem(snap_uigf.info, "export_app", "Converted from Snap Hutao")
        r == ConvertBundles(snap_uigf.hk4e, sw_meta_db, 1, << >>)
    IN  IF r.raised THEN r
        ELSE [raised |-> FALSE,
              doc |-> [info |-> export_info, hk4e |-> r.hk4e,
                       hkrpg |-> << >>, nap |-> << >>]]

-----------------------------------------------------------------------------
(* SpecConvert: one call of convert_snap_hutao_to_starward.                *)

MaxRecs == 2

\* An extra bag with one field.
ExtraBag == <<[key |-> "note", val |-> "x"]>>

\* The members of a record's JSON object that SnapHutaoRecord does not declare.
UnknownFields == <<[key |-> "wish_source", val |-> "event"]>>

\* The Vendor-B records: an item id that may be missing or unknown to every
\* store, and two settings of the other fields; two records have a member
\* SnapHutaoRecord does not declare.
SnapRecords ==
    {SnapHutaoRecord("301", "400", i, "2024-01-01 00:00:00", "1001", EmptyDict,
                     EmptyDict) : i \in ItemIds \cup {None, "99"}}
    \cup {SnapHutaoRecord("200", "200", i, "2024-01-02 00:00:00", None, ExtraBag,
                          EmptyDict) : i \in ItemIds \cup {None, "99"}}
    \cup {SnapHutaoRecord("301", "301", "2", "2024-01-03 00:00:00", "1003",
                          EmptyDict, UnknownFields),
          SnapHutaoRecord("200", "200", "10", "2024-01-04 00:00:00", "1004",
                          ExtraBag, UnknownFields)}

RecordLists == UNION {[1..len -> SnapRecords] : len \in 0..MaxRecs}

\* The records in no bundle (when there are none), in one, or split over two.
Bundlings(l) ==
    {<<SnapHutaoUserBundle("u1", << >>, l)>>}
    \cup {<<SnapHutaoUserBundle("u1", <<8>>, SubSeq(l, 1, k)),
            SnapHutaoUserBundle("u2", << >>, SubSeq(l, k + 1, Len(l)))>> :
            k \in 0..Len(l)}
    \cup (IF l = << >> THEN {<< >>} ELSE {})

SnapInfo == <<[key |-> "export_app", val |-> "Snap Hutao"], [key |-> "version", val |-> "v4.0"]>>

SnapDocs ==
    UNION {{[info |-> SnapInfo, hk4e |-> b] : b \in Bundlings(l)} : l \in RecordLists}

\* The stores of the conversion: complete, or short of an entry, an item type
\* or a rank type (None or the empty string).
ConvStores ==
    {EmptyDB,
     <<Item("2", StarwardMetaItem("A", "weapon", "5", "2")),
       Item("10", StarwardMetaItem("B", "character", "4", "10"))>>,
     <<Item("10", StarwardMetaItem("", "character", "4", "10")),
       Item("2", StarwardMetaItem("A", "weapon", "5", "2"))>>,
     <<Item("2", StarwardMetaItem("A", "weapon", "5", "2"))>>,
     <<Item("2", StarwardMetaItem("A", "weapon", "5", "2")),
       Item("10", StarwardMetaItem("B", None, "4", "10"))>>,
     <<Item("2", StarwardMetaItem("A", "weapon", None, "2")),
       Item("10", StarwardMetaItem("B", "character", "4", "10"))>>,
     <<Item("2", StarwardMetaItem("A", "weapon", "5", "2")),
       Item("10", StarwardMetaItem("B", "", "4", "10"))>>,
     <<Item("2", StarwardMetaItem("A", "weapon", "", "2")),
       Item("10", StarwardMetaItem("B", "character", "4", "10"))>>}

InitConvert ==
    /\ db \in ConvStores
    /\ snap \in SnapDocs
    /\ conv = "ready"
    /\ out = << >>
    /\ err = None
    /\ IdleStore /\ IdleTwice /\ IdleRun /\ IdleShare /\ IdleCall

Convert ==
    /\ conv = "ready"
    /\ LET r == convert_snap_hutao_to_starward(snap, db) IN
       IF r.raised
       THEN conv' = "raised" /\ err' = r.iid /\ out' = << >>
       ELSE conv' = "returned" /\ err' = None /\ out' = <<r.doc>>
    /\ UNCHANGED <<db, snap, exceptConv>>

NextConvert == Convert

SpecConvert == InitConvert /\ [][NextConvert]_vars

\* The records of a document, with the uid of their bundles, in order.
RECURSIVE Flat(_)
Flat(hk4e) ==
    IF hk4e = << >> THEN << >>
    ELSE [i \in 1..Len(hk4e[1].list) |-> [uid |-> hk4e[1].uid, rec |-> hk4e[1].list[i]]]
         \o Flat(Tail(hk4e))

\* The record's item id has no entry in the store, or the entry's item_type or
\* rank_type is empty (None or "").
Lacking(srec, d) ==
    \/ srec.item_id = None
    \/ ~Has(d, srec.item_id)
    \/ Falsy(Get(d, srec.item_id).item_type)
    \/ Falsy(Get(d, srec.item_id).rank_type)

LackingRecords == {i \in 1..Len(Flat(snap.hk4e)) : Lacking(Flat(snap.hk4e)[i].rec, db)}

\* C2: when a record of the document has no entry in the store, or an entry
\* whose item_type or rank_type is None or "", the conversion raises, the error
\* names the item id of such a record, and no document is returned.
C2_FailClosed ==
    (conv # "ready" /\ LackingRecords # {}) =>
        /\ conv = "raised"
        /\ out = << >>
        /\ \E i \in LackingRecords : Flat(snap.hk4e)[i].rec.item_id = err

\* The i-th output record is the i-th source record with the store's entry.
Mapped(src, dst, d) ==
    LET meta == Get(d, src.rec.item_id) IN
    /\ dst.uigf_gacha_type = src.rec.uigf_gacha_type
    /\ dst.gacha_type = src.rec.gacha_type
    /\ dst.item_id = src.rec.item_id
    /\ dst.time = src.rec.time
    /\ dst.id = src.rec.id
    /\ dst.uid = src.uid
    /\ dst.name = meta.name
    /\ dst.item_type = meta.item_type
    /\ dst.rank_type = meta.rank_type
    /\ dst.count = "1"
    /\ dst.lang = "zh-cn"
    /\ (dst.extra # EmptyDict) <=> (src.rec.extra # EmptyDict)
    /\ src.rec.extra # EmptyDict => dst.extra = src.rec.extra

\* C3: when every record has an entry with item_type and rank_type in the
\* store, the conversion returns a document, and every record of a returned
\* document copies uigf_gacha_type, gacha_type, item_id, time and id from its
\* source record, has the uid of the source's bundle, the name, item_type and
\* rank_type of the store's entry, count "1", lang "zh-cn", and an extra bag
\* exactly when the source's is non-empty (then the same).
C3_SuccessMapping ==
    /\ (conv # "ready" /\ LackingRecords = {}) => conv = "returned"
    /\ conv = "returned" =>
        LET src == Flat(snap.hk4e)
            dst == Flat(out[1].hk4e)
        IN  /\ Len(dst) = Len(src)
            /\ \A i \in 1..Len(src) : Mapped(src[i], dst[i].rec, db)

\* C3: a document of two bundles is converted, with and without an extra bag.
C3_Witness ==
    /\ conv = "returned"
    /\ LackingRecords = {}
    /\ Len(out[1].hk4e) = 2
    /\ \E i, j \in 1..Len(Flat(out[1].hk4e)) :
          /\ Flat(out[1].hk4e)[i].rec.extra = ExtraBag
          /\ Flat(out[1].hk4e)[j].rec.extra = EmptyDict
          /\ Flat(out[1].hk4e)[i].rec.item_id # Flat(out[1].hk4e)[j].rec.item_id

\* C13: a returned document has one user bundle for each user bundle of the
\* source, in the same order, with the same uid and timezone, and each bundle
\* has one record for each record of the source's bundle, in the same order:
\* its k-th record is the conversion of the source's k-th record.
C13_DrawOrder ==
    conv = "returned" =>
        LET src == snap.hk4e
            dst == out[1].hk4e
        IN  /\ Len(dst) = Len(src)
            /\ \A b \in 1..Len(src) :
                  /\ dst[b].uid = src[b].uid
                  /\ dst[b].timezone = src[b].timezone
                  /\ Len(dst[b].list) = Len(src[b].list)
                  /\ \A k \in 1..Len(src[b].list) :
                        Mapped([uid |-> src[b].uid, rec |-> src[b].list[k]],
                               dst[b].list[k], db)

\* C13: a document of two bundles with different timezones, the first with two
\* different records, is converted.
C13_Witness ==
    /\ conv = "returned"
    /\ Len(snap.hk4e) = 2
    /\ snap.hk4e[1].timezone # snap.hk4e[2].timezone
    /\ Len(snap.hk4e[1].list) = 2
    /\ snap.hk4e[1].list[1] # snap.hk4e[1].list[2]
    /\ out[1].hk4e[1].list[1].item_id # out[1].hk4e[1].list[2].item_id

\* C16: every member of a Vendor-B record's JSON object that the record does
\* not declare is kept by the reader (in model_extra), and in a returned
\* document it is, with the same value, in the extra bag of the record's
\* conversion (its extra field or its model_extra).
C16_UnknownFieldsSurvive ==
    conv = "returned" =>
        LET src == Flat(snap.hk4e)
            dst == Flat(out[1].hk4e)
        IN  \A i \in 1..Len(src) :
                Range(src[i].rec.model_extra)
                    \subseteq Range(dst[i].rec.extra) \cup Range(dst[i].rec.model_extra)

-----------------------------------------------------------------------------
(* process_metadata.py: the files, the mapping importer and the pending    *)
(* list of the completion resolver.                                        *)
(*                                                                         *)
(* A file is a record [kind, ...]: kind "absent" (no such file),           *)
(* "malformed" (json.load or the validation of its shape raises) or "json" *)
(* with the parsed content.  A JSON id of the mapping file is a number or  *)
(* a string: [t |-> "int", i |-> 2, s |-> ""] or [t |-> "str", i |-> 0,    *)
(* s |-> "2"].                                                             *)

JInt(i) == [t |-> "int", i |-> i, s |-> ""]
JStr(s) == [t |-> "str", i |-> 0, s |-> s]

Digit(d) == <<"0", "1", "2", "3", "4", "5", "6", "7", "8", "9">>[d + 1]

RECURSIVE IntToStr(_)
\* str(i) of a non-negative int.
IntToStr(i) == IF i < 10 THEN Digit(i) ELSE IntToStr(i \div 10) \o Digit(i % 10)

\* str(j) of a JSON id.
PyStr(j) == IF j.t = "int" THEN IntToStr(j.i) ELSE j.s

\* output_starward_db: the content of outfile after the call.
output_starward_db(sw_metas, outfile) == [kind |-> "json", by_id |-> sw_metas]

\* read_starward_meta_db: the store read, or the raise.
read_starward_meta_db(file) ==
    IF file.kind = "json"
    THEN [raised |-> FALSE, db |-> file.by_id]
    ELSE [raised |-> TRUE]

\* read_starward_uigf4: the document read, or the raise.
read_starward_uigf4(file) ==
    IF file.kind = "json"
    THEN [raised |-> FALSE, uigf |-> [hk4e |-> file.hk4e]]
    ELSE [raised |-> TRUE]

RECURSIVE MapIds(_, _, _, _)
\* `for iid in ids: id_to_name[str(iid)] = name`, from the i-th id on.
MapIds(id_to_name, name, ids, i) ==
    IF i > Len(ids) THEN id_to_name
    ELSE MapIds(SetItem(id_to_name, PyStr(ids[i]), name), name, ids, i + 1)

RECURSIVE MapNames(_, _, _)
\* The loop over name_to_id.items(), from the i-th item on.
MapNames(id_to_name, name_to_id, i) ==
    IF i > Len(name_to_id) THEN id_to_name
    ELSE LET name == name_to_id[i].key
             v == name_to_id[i].val
         IN  MapNames(IF v.list
                      THEN MapIds(id_to_name, name, v.ids, 1)
                      ELSE SetItem(id_to_name, PyStr(v.ids[1]), name),
                      name_to_id, i + 1)

\* A mutation of UIGF_id_name_mapping: only the lists of ids are read.
UIGF_id_name_mapping_lists(name_to_id) ==
    MapNames(<< >>,
             [i \in 1..Len(name_to_id) |->
                 IF name_to_id[i].val.list THEN name_to_id[i]
                 ELSE [key |-> name_to_id[i].key, val |-> [list |-> TRUE, ids |-> << >>]]],
             1)

\* UIGF_id_name_mapping: id_to_name, of the parsed file name_to_id.
UIGF_id_name_mapping(name_to_id) == MapNames(<< >>, name_to_id, 1)

RECURSIVE BuildFrom(_, _, _)
\* The loop of build_meta_db_from_mapping from the i-th item of id_to_name on.
BuildFrom(d, id_to_name, i) ==
    IF i > Len(id_to_name) THEN d
    ELSE BuildFrom(Put(d, id_to_name[i].key,
                       StarwardMetaItem(id_to_name[i].val, None, None, id_to_name[i].key)),
                   id_to_name, i + 1)

\* build_meta_db_from_mapping: the store built, or the raise.
build_meta_db_from_mapping(file) ==
    IF file.kind = "json"
    THEN [raised |-> FALSE, db |-> BuildFrom(EmptyDB, UIGF_id_name_mapping(file.dict), 1)]
    ELSE [raised |-> TRUE]

RECURSIVE AddList(_, _, _)
\* `for rec in user.list: base_db.add_from_record(rec)`, from the i-th record on.
AddList(d, list, i) ==
    IF i > Len(list) THEN d ELSE AddList(add_from_record(d, list[i]), list, i + 1)

RECURSIVE AddUsers(_, _, _)
\* `for user in uigf.hk4e`, from the i-th user bundle on.
AddUsers(d, hk4e, i) ==
    IF i > Len(hk4e) THEN d ELSE AddUsers(AddList(d, hk4e[i].list, 1), hk4e, i + 1)

\* A mutation of Layered: the records are added before the mapping is merged.
LayeredRecordsFirst(base, mapping_store, uigf) ==
    merge_meta_db(AddUsers(base, uigf.hk4e, 1), mapping_store)

\* Steps 1 and 2 of merge_mapping_and_starward on the stores and the document
\* read: base_db when the resolver is called.
Layered(base, mapping_store, uigf) ==
    AddUsers(merge_meta_db(base, mapping_store), uigf.hk4e, 1)

\* The ints whose decimal strings the ids of the model may be.
IdInts == 0..12

\* Stands for the one-character string U+00B2 (superscript two), for which
\* str.isdigit() is True and int() raises ValueError.
SuperscriptTwo == "sup2"

\* str.isdigit() on the ids of the model.
isdigit(k) == (\E i \in IdInts : IntToStr(i) = k) \/ k = SuperscriptTwo

IntRaises(k) == k = SuperscriptTwo

\* int(k) of a decimal string.
IntOf(k) == CHOOSE i \in IdInts : IntToStr(i) = k

\* The ids of the model that are not decimal, in the order of Python's str <.
LexOrder == <<"", "abc", "abd">>

LexRank(k) == CHOOSE i \in 1..Len(LexOrder) : LexOrder[i] = k

\* _key: (0, int(k)) or (1, str(k)), the string as its rank in LexOrder.
SortKey(k) == IF isdigit(k) THEN <<0, IntOf(k)>> ELSE <<1, LexRank(k)>>

\* Python's < on the tuples of _key.
KeyLess(a, b) ==
    LET ka == SortKey(a)
        kb == SortKey(b)
    IN  ka[1] < kb[1] \/ (ka[1] = kb[1] /\ ka[2] < kb[2])

RECURSIVE Insert(_, _)
Insert(item, sorted) ==
    IF sorted = << >> THEN <<item>>
    ELSE IF KeyLess(item.key, Head(sorted).key) THEN <<item>> \o sorted
    ELSE <<Head(sorted)>> \o Insert(item, Tail(sorted))

RECURSIVE Sorted(_)
\* sorted(items, key=_key) of items with distinct keys.
Sorted(items) ==
    IF items = << >> THEN << >>
    ELSE Insert(items[Len(items)], Sorted(SubSeq(items, 1, Len(items) - 1)))

\* `items`: sorted by _key, or in the order of the dict when _key raises.
SortedItems(d) ==
    IF \E k \in Keys(d) : isdigit(k) /\ IntRaises(k) THEN d ELSE Sorted(d)

\* A mutation of IsPending: an entry with no name is offered too.
IsPendingNameless(meta) ==
    /\ ~Falsy(meta.item_id)
    /\ Falsy(meta.item_type) \/ Falsy(meta.rank_type)

\* The test of the loop that collects `pending`.
IsPending(meta) ==
    /\ ~(Falsy(meta.item_id) \/ Falsy(meta.name))
    /\ Falsy(meta.item_type) \/ Falsy(meta.rank_type)

\* `pending` of prompt_missing_meta_fields, as the keys of its tuples: the
\* entries themselves are those of the store (the tuples hold references).
PendingOf(d) ==
    LET sel == SelectSeq(SortedItems(d), LAMBDA it : IsPending(it.val))
    IN  [i \in 1..Len(sel) |-> sel[i].key]

\* A mutation of save_current: the selected values are written in any case.
save_current_overwrite(d, iid, var_type, var_rank) ==
    Put(d, iid, [Get(d, iid) EXCEPT !.item_type = var_type, !.rank_type = var_rank])

\* MetaFillWizard.save_current: the store after the call, for the entry iid.
save_current(d, iid, var_type, var_rank) ==
    Put(d, iid, [Get(d, iid) EXCEPT
                    !.item_type = IF Falsy(@) THEN var_type ELSE @,
                    !.rank_type = IF Falsy(@) THEN var_rank ELSE @])

RECURSIVE CliSeek(_, _, _, _)
\* The CLI's next prompt at or after entry i (from 0) and prompt ph: a prompt
\* is made for a field that is empty when the loop reaches it.
CliSeek(d, pend, i, ph) ==
    IF i >= Len(pend) THEN [over |-> TRUE, index |-> i, phase |-> "none"]
    ELSE IF ph = "type"
         THEN IF Falsy(Get(d, pend[i + 1]).item_type)
              THEN [over |-> FALSE, index |-> i, phase |-> "type"]
              ELSE CliSeek(d, pend, i, "rank")
         ELSE IF Falsy(Get(d, pend[i + 1]).rank_type)
              THEN [over |-> FALSE, index |-> i, phase |-> "rank"]
              ELSE CliSeek(d, pend, i + 1, "type")

\* The CLI's answers: the item type of an input, None for an input it rejects.
CliType(v) == IF v = "1" THEN "weapon" ELSE IF v = "2" THEN "character" ELSE None

CliInputs == {"", "1", "2", "5", "x"}

-----------------------------------------------------------------------------
(* The run of merge_mapping_and_starward, with the resolver's events.      *)

\* Step 4 once the resolver has returned: the store is saved and the run ends.
Saved(d, how) ==
    /\ meta_file' = output_starward_db(d, meta_file)
    /\ pc' = "done"
    /\ ended' = how

\* Steps 0 to 3, up to the resolver's first wait for the operator, to the end
\* of the run when nothing is pending, or to the raise.
RunStart ==
    /\ pc = "start"
    /\ LET m == read_starward_meta_db(meta_file)
           base == IF m.raised THEN EmptyDB ELSE m.db
           mp == build_meta_db_from_mapping(mapping_file)
           u == read_starward_uigf4(starward_file)
       IN  IF mp.raised \/ u.raised
           THEN /\ pc' = "error"
                /\ mapping_db' = IF mp.raised THEN << >> ELSE mp.db
                /\ UNCHANGED <<db, meta_file, merged, pending, index, phase, ended>>
           ELSE LET d == Layered(base, mp.db, u.uigf)
                    pend == PendingOf(d)
                IN  /\ db' = d
                    /\ merged' = d
                    /\ mapping_db' = mp.db
                    /\ pending' = pend
                    /\ IF pend = << >>
                       THEN Saved(d, "none") /\ UNCHANGED <<index, phase>>
                       ELSE IF tk
                       THEN /\ pc' = "wizard"
                            /\ index' = 0
                            /\ UNCHANGED <<meta_file, phase, ended>>
                       ELSE /\ pc' = "cli"
                            /\ index' = CliSeek(d, pend, 0, "type").index
                            /\ phase' = CliSeek(d, pend, 0, "type").phase
                            /\ UNCHANGED <<meta_file, ended>>
    /\ event' = "merge_mapping_and_starward"
    /\ UNCHANGED <<fileVars, written, clash, exceptRun>>

\* A mutation of on_prev: the entry is saved before the wizard goes back.
on_prev_saves ==
    /\ pc = "wizard"
    /\ db' = save_current(db, pending[index + 1], ITEM_TYPES[1], RANK_CHOICES[5])
    /\ index' = IF index > 0 THEN index - 1 ELSE index
    /\ event' = "on_prev"
    /\ clash' = "none"
    /\ UNCHANGED <<meta_file, fileVars, pc, mapping_db, merged, pending,
                   phase, ended, written, exceptRun>>

on_prev ==
    /\ pc = "wizard"
    /\ index' = IF index > 0 THEN index - 1 ELSE index
    /\ event' = "on_prev"
    /\ clash' = "none"
    /\ UNCHANGED <<db, meta_file, fileVars, pc, mapping_db, merged, pending,
                   phase, ended, written, exceptRun>>

\* A mutation of on_skip: a skip on the last entry closes the wizard.
on_skip_finish ==
    /\ pc = "wizard"
    /\ IF index < Len(pending) - 1
       THEN index' = index + 1 /\ UNCHANGED <<meta_file, pc, ended>>
       ELSE Saved(db, "finished") /\ UNCHANGED index
    /\ event' = "on_skip"
    /\ clash' = "none"
    /\ UNCHANGED <<db, fileVars, mapping_db, merged, pending, phase, written,
                   exceptRun>>

\* A mutation of on_skip: the index is advanced without the test.
on_skip_unguarded ==
    /\ pc = "wizard"
    /\ index' = index + 1
    /\ event' = "on_skip"
    /\ clash' = "none"
    /\ UNCHANGED <<db, meta_file, fileVars, pc, mapping_db, merged, pending,
                   phase, ended, written, exceptRun>>

\* On the last entry the index stays and a messagebox says so.
on_skip ==
    /\ pc = "wizard"
    /\ index' = IF index < Len(pending) - 1 THEN index + 1 ELSE index
    /\ event' = IF index < Len(pending) - 1 THEN "on_skip" ELSE "on_skip:showinfo"
    /\ clash' = "none"
    /\ UNCHANGED <<db, meta_file, fileVars, pc, mapping_db, merged, pending,
                   phase, ended, written, exceptRun>>

\* The fields of `wanted` ([field, value]) that are written to the entry iid.
Writes(iid, meta, wanted) ==
    {[key |-> iid, field |-> w.field, value |-> w.value] :
        w \in {x \in wanted : Falsy(meta[x.field])}}

\* Whether the selection differs from a filled field, and who filled it.
Clash(iid, meta, wanted) ==
    LET kept == {x \in wanted : ~Falsy(meta[x.field]) /\ meta[x.field] # x.value}
    IN  IF \E x \in kept : \E w \in written : w.key = iid /\ w.field = x.field
        THEN "resubmitted"
        ELSE IF kept # {} THEN "prefilled" ELSE "none"

on_save_next ==
    /\ pc = "wizard"
    /\ \E var_type \in Range(ITEM_TYPES), var_rank \in Range(RANK_CHOICES) :
        LET iid == pending[index + 1]
            wanted == {[field |-> "item_type", value |-> var_type],
                       [field |-> "rank_type", value |-> var_rank]}
            d == save_current(db, iid, var_type, var_rank)
        IN  /\ db' = d
            /\ written' = written \cup Writes(iid, Get(db, iid), wanted)
            /\ clash' = Clash(iid, Get(db, iid), wanted)
            /\ IF index < Len(pending) - 1
               THEN index' = index + 1 /\ UNCHANGED <<meta_file, pc, ended>>
               ELSE Saved(d, "finished") /\ UNCHANGED index
    /\ event' = "on_save_next"
    /\ UNCHANGED <<fileVars, mapping_db, merged, pending, phase, exceptRun>>

on_finish ==
    /\ pc = "wizard"
    /\ Saved(db, "finished")
    /\ event' = "on_finish"
    /\ clash' = "none"
    /\ UNCHANGED <<db, fileVars, mapping_db, merged, pending, index, phase,
                   written, exceptRun>>

\* A mutation of on_cancel: a confirmed cancel ends the run without saving.
on_cancel_exit ==
    /\ pc = "wizard"
    /\ \E askyesno \in BOOLEAN :
        /\ IF askyesno
           THEN pc' = "done" /\ ended' = "abandoned" /\ UNCHANGED meta_file
           ELSE UNCHANGED <<meta_file, pc, ended>>
        /\ event' = IF askyesno THEN "on_cancel:yes" ELSE "on_cancel:no"
    /\ clash' = "none"
    /\ UNCHANGED <<db, fileVars, mapping_db, merged, pending, index, phase,
                   written, exceptRun>>

on_cancel ==
    /\ pc = "wizard"
    /\ \E askyesno \in BOOLEAN :
        /\ IF askyesno
           THEN Saved(db, "abandoned")
           ELSE UNCHANGED <<meta_file, pc, ended>>
        /\ event' = IF askyesno THEN "on_cancel:yes" ELSE "on_cancel:no"
    /\ clash' = "none"
    /\ UNCHANGED <<db, fileVars, mapping_db, merged, pending, index, phase,
                   written, exceptRun>>

\* One input() of the CLI fallback and the loop up to the next input().
CliAnswer ==
    /\ pc = "cli"
    /\ \E v \in CliInputs :
        LET iid == pending[index + 1]
            value == IF phase = "type" THEN CliType(v)
                     ELSE IF v \in Range(RANK_CHOICES) THEN v ELSE None
            field == IF phase = "type" THEN "item_type" ELSE "rank_type"
            d == IF value = None THEN db
                 ELSE Put(db, iid, [Get(db, iid) EXCEPT ![field] = value])
            next == IF phase = "type" THEN CliSeek(d, pending, index, "rank")
                    ELSE CliSeek(d, pending, index + 1, "type")
        IN  IF v # "" /\ value = None
            THEN UNCHANGED <<db, written, index, phase, meta_file, pc, ended>>
            ELSE /\ db' = d
                 /\ written' = IF value = None THEN written
                               ELSE written \cup {[key |-> iid, field |-> field,
                                                   value |-> value]}
                 /\ IF next.over
                    THEN Saved(d, "answered") /\ UNCHANGED <<index, phase>>
                    ELSE /\ index' = next.index
                         /\ phase' = next.phase
                         /\ UNCHANGED <<meta_file, pc, ended>>
    /\ event' = "input"
    /\ clash' = "none"
    /\ UNCHANGED <<fileVars, mapping_db, merged, pending, exceptRun>>

AbsentFile == [kind |-> "absent"]
MalformedFile == [kind |-> "malformed"]
MetaJson(d) == [kind |-> "json", by_id |-> d]
MappingJson(d) == [kind |-> "json", dict |-> d]
ExportJson(h) == [kind |-> "json", hk4e |-> h]

\* The values of the mapping file: one id, or a list of ids.
OneId(j) == [list |-> FALSE, ids |-> <<j>>]
IdList(l) == [list |-> TRUE, ids |-> l]

StarwardUserBundle(uid, l) == [uid |-> uid, list |-> l]

InitRun(metas, mappings, exports, tks) ==
    /\ meta_file \in metas
    /\ meta_file0 = meta_file
    /\ mapping_file \in mappings
    /\ starward_file \in exports
    /\ tk \in tks
    /\ pc = "start"
    /\ db = EmptyDB
    /\ mapping_db = << >>
    /\ merged = << >>
    /\ pending = << >>
    /\ index = 0
    /\ phase = "none"
    /\ ended = "none"
    /\ written = {}
    /\ clash = "none"
    /\ event = "none"
    /\ IdleStore /\ IdleTwice /\ IdleConv /\ IdleShare /\ IdleCall

-----------------------------------------------------------------------------
(* Spec: runs of merge_mapping_and_starward on a few files, with every     *)
(* sequence of events of the resolver.                                     *)

RunMetaFiles ==
    {AbsentFile, MalformedFile,
     MetaJson(<<Item("10", StarwardMetaItem("B", "weapon", None, "10")),
                Item("2", StarwardMetaItem("A", None, None, "2"))>>)}

RunMappingFiles ==
    {MalformedFile,
     MappingJson(<<Item("B", IdList(<<JInt(10), JStr("abc")>>))>>)}

RunExportFiles ==
    {MalformedFile,
     ExportJson(<< >>),
     ExportJson(<<StarwardUserBundle("u1",
                    <<StarwardRecord("2", "B", None, "5"),
                      StarwardRecord("7", None, "character", "4")>>)>>)}

Init == InitRun(RunMetaFiles, RunMappingFiles, RunExportFiles, BOOLEAN)

Next ==
    \/ RunStart
    \/ on_prev
    \/ on_skip
    \/ on_save_next
    \/ on_finish
    \/ on_cancel
    \/ CliAnswer

Spec == Init /\ [][Next]_vars

\* C5: no step of the resolver (a wizard event or a CLI answer) changes an
\* item_type or a rank_type that is non-empty before the step: a submit writes
\* a field only when it is empty at that moment, whatever value is selected,
\* also on an entry gone back to after it was saved.
C5_NeverOverwrites ==
    [][(pc \in {"wizard", "cli"}) => (\A k \in Keys(db) : KeepsFilled(db, db', k))]_vars

\* C5: the operator went back to a saved entry and submitted another value.
C5_Witness == clash = "resubmitted"

\* C6: when the operator has abandoned (a confirmed cancel), every field value
\* a submit wrote is in the store, and the run has saved that store to the
\* store file.
C6_AbandonKeeps ==
    (pc = "done" /\ ended = "abandoned") =>
        /\ \A w \in written : Get(db, w.key)[w.field] = w.value
        /\ meta_file.kind = "json"
        /\ meta_file.by_id = db
        /\ \A w \in written : Get(meta_file.by_id, w.key)[w.field] = w.value

\* C6: the operator abandoned after two submits.
C6_Witness ==
    /\ pc = "done"
    /\ ended = "abandoned"
    /\ \E v, w \in written : v.key # w.key

\* C7: when the store file, the mapping file or the export file is malformed,
\* the run ends with the error raised and the store file as it was.
C7_MalformedAborts ==
    (/\ pc \in {"done", "error"}
     /\ \/ meta_file0.kind = "malformed"
        \/ mapping_file.kind = "malformed"
        \/ starward_file.kind = "malformed")
    => (pc = "error" /\ meta_file = meta_file0)

-----------------------------------------------------------------------------
(* SpecLayers: the run up to the resolver, on many files.                  *)

MaxExport == 2

LayerMetaFiles ==
    {AbsentFile, MalformedFile,
     MetaJson(EmptyDB),
     MetaJson(<<Item("2", StarwardMetaItem("A", "weapon", "5", "2"))>>),
     MetaJson(<<Item("10", StarwardMetaItem("", None, None, "10")),
                Item("2", StarwardMetaItem("A", "", "4", "2"))>>),
     MetaJson(<<Item("abc", StarwardMetaItem("B", "character", None, "abc")),
                Item("10", StarwardMetaItem("A", None, None, ""))>>),
     MetaJson(<<Item(SuperscriptTwo, StarwardMetaItem("A", None, None, SuperscriptTwo)),
                Item("10", StarwardMetaItem("B", None, "4", "10")),
                Item("2", StarwardMetaItem("", None, None, "2"))>>)}

LayerMappingFiles ==
    {MalformedFile,
     MappingJson(<< >>),
     MappingJson(<<Item("A", IdList(<<JInt(2), JInt(10)>>)), Item("B", OneId(JInt(3)))>>),
     MappingJson(<<Item("B", OneId(JStr("2")))>>),
     MappingJson(<<Item("A", IdList(<<JInt(2)>>)),
                   Item("B", IdList(<<JStr("2"), JStr("abc")>>))>>),
     MappingJson(<<Item("", IdList(<<JInt(10)>>)), Item("A", IdList(<< >>))>>)}

ExportRecords ==
    {StarwardRecord("2", "B", "weapon", None),
     StarwardRecord("2", None, "character", "5"),
     StarwardRecord("10", "A", "", "4"),
     StarwardRecord("10", "B", "weapon", "5"),
     StarwardRecord("abc", "", None, None),
     StarwardRecord(None, "A", "weapon", "5")}

ExportLists == UNION {[1..len -> ExportRecords] : len \in 0..MaxExport}

\* The records in no bundle (when there are none), in one, or split over two.
ExportBundlings(l) ==
    {<<StarwardUserBundle("u1", l)>>}
    \cup {<<StarwardUserBundle("u1", SubSeq(l, 1, k)),
            StarwardUserBundle("u2", SubSeq(l, k + 1, Len(l)))>> : k \in 1..Len(l)}
    \cup (IF l = << >> THEN {<< >>} ELSE {})

LayerExportFiles ==
    {MalformedFile}
    \cup UNION {{ExportJson(b) : b \in ExportBundlings(l)} : l \in ExportLists}

InitLayers == InitRun(LayerMetaFiles, LayerMappingFiles, LayerExportFiles, {TRUE})

NextLayers == RunStart

SpecLayers == InitLayers /\ [][NextLayers]_vars

\* The run has come to the resolver: the three layers are merged.
Layers == pc \in {"wizard", "cli", "done"}

MetaFields == {"name", "item_type", "rank_type"}

\* The values the layers offer for field f of item k, in the order of the
\* layers: the store file, the mapping, the export's records in document order.
Candidates(k, f) ==
    LET recs == SelectSeq(Flat(starward_file.hk4e), LAMBDA x : x.rec.item_id = k)
    IN  <<IF meta_file0.kind = "json" THEN Get(meta_file0.by_id, k)[f] ELSE None,
          Get(mapping_db, k)[f]>>
        \o [i \in 1..Len(recs) |-> recs[i].rec[f]]

\* C8: when the resolver is called, each field (name, item_type, rank_type) of
\* each item is the first non-empty value among the store file's, the
\* mapping's and the export records' in document order, and is empty when
\* they are all empty.
C8_LayerPriority ==
    Layers =>
        \A k \in Keys(merged) \cup ItemIds \cup {"abc"}, f \in MetaFields :
            LET c == Candidates(k, f)
                full == {i \in 1..Len(c) : ~Falsy(c[i])}
            IN  IF full = {} THEN Falsy(Get(merged, k)[f])
                ELSE \E i \in full : /\ \A j \in full : i <= j
                                     /\ Get(merged, k)[f] = c[i]

\* C8: the store file's name and the mapping's differ, and for another field
\* the store file has no value and two records of the export differ.
C8_Witness ==
    /\ Layers
    /\ \E k \in Keys(merged) :
          /\ ~Falsy(Candidates(k, "name")[1])
          /\ ~Falsy(Candidates(k, "name")[2])
          /\ Candidates(k, "name")[1] # Candidates(k, "name")[2]
    /\ \E k \in Keys(merged) :
          LET c == Candidates(k, "item_type") IN
          /\ Len(c) = 4
          /\ Falsy(c[1]) /\ ~Falsy(c[3]) /\ ~Falsy(c[4]) /\ c[3] # c[4]

\* The (id as a string, display name) pairs of a parsed mapping file.
Listed(dict) ==
    UNION {{<<PyStr(dict[i].val.ids[j]), dict[i].key>> : j \in 1..Len(dict[i].val.ids)} :
            i \in 1..Len(dict)}

\* C9: the store built from a mapping file has one entry for each id of each
\* value and no other; the entry is under the id as a string, its item_id is
\* that string, its name a display name the id is listed under, and its
\* item_type and rank_type are None.
C9_MappingImport ==
    (pc # "start" /\ mapping_file.kind = "json") =>
        /\ Keys(mapping_db) = {l[1] : l \in Listed(mapping_file.dict)}
        /\ Cardinality(Keys(mapping_db)) = Len(mapping_db)
        /\ \A i \in 1..Len(mapping_db) :
              /\ mapping_db[i].val.item_id = mapping_db[i].key
              /\ <<mapping_db[i].key, mapping_db[i].val.name>> \in Listed(mapping_file.dict)
              /\ mapping_db[i].val.item_type = None
              /\ mapping_db[i].val.rank_type = None

\* C9: a mapping with a list of two ids and a single id is imported.
C9_Witness ==
    /\ pc # "start"
    /\ mapping_file.kind = "json"
    /\ Len(mapping_db) = 3
    /\ \E i, j \in 1..Len(mapping_file.dict) :
          /\ ~mapping_file.dict[i].val.list
          /\ mapping_file.dict[j].val.list
          /\ Len(mapping_file.dict[j].val.ids) = 2

\* C10: the pending list holds the key of an entry of the store exactly when
\* the entry has a non-empty item_id, a non-empty name and an empty item_type
\* or rank_type, and holds it once.
C10_PendingSelection ==
    Layers =>
        /\ \A i \in 1..Len(merged) :
              (\E j \in 1..Len(pending) : pending[j] = merged[i].key)
              <=> (/\ ~Falsy(merged[i].val.item_id)
                   /\ ~Falsy(merged[i].val.name)
                   /\ Falsy(merged[i].val.item_type) \/ Falsy(merged[i].val.rank_type))
        /\ Range(pending) \subseteq Keys(merged)
        /\ Cardinality(Range(pending)) = Len(pending)

\* C10: an entry is pending, one with no name and one with both fields are not.
C10_Witness ==
    /\ Layers
    /\ pending # << >>
    /\ \E i, j \in 1..Len(merged) :
          /\ Falsy(merged[i].val.name) /\ Falsy(merged[i].val.item_type)
          /\ ~Falsy(merged[i].val.item_id)
          /\ ~Falsy(merged[j].val.name)
          /\ ~Falsy(merged[j].val.item_type) /\ ~Falsy(merged[j].val.rank_type)


\* A decimal id of the model, and the order the ids are to be listed in: the
\* decimal ids by their value, then the others by Python's str < (U+00B2 is
\* above every ASCII character).
Decimal(k) == \E i \in IdInts : IntToStr(i) = k

OtherIds == LexOrder \o <<SuperscriptTwo>>

OtherRank(k) == CHOOSE i \in 1..Len(OtherIds) : OtherIds[i] = k

ListedBefore(a, b) ==
    IF Decimal(a) /\ Decimal(b) THEN IntOf(a) < IntOf(b)
    ELSE IF Decimal(a) \/ Decimal(b) THEN Decimal(a)
    ELSE OtherRank(a) < OtherRank(b)

\* C11: the pending list has the entries with numeric ids first, in ascending
\* numeric order, then the entries with other ids in ascending lexical order,
\* whatever the order of the store's dict.
C11_PendingOrder ==
    Layers => \A i, j \in 1..Len(pending) : i < j => ListedBefore(pending[i], pending[j])


\* The entry the resolver is at.
Current == pending[index + 1]

\* The resolver waits for the operator at an entry whose item_type and
\* rank_type are both empty.
AtBothEmpty ==
    /\ pc \in {"wizard", "cli"}
    /\ Falsy(Get(db, Current).item_type)
    /\ Falsy(Get(db, Current).rank_type)

\* A step that fills exactly one of the two fields of the entry it is at.
FillsOne ==
    (Get(db', Current).item_type # Get(db, Current).item_type)
    # (Get(db', Current).rank_type # Get(db, Current).rank_type)

\* A step that fills nothing and passes on (or ends the resolver).
FillsNone == db' = db /\ <<index, phase, pc>>' # <<index, phase, pc>>

\* C12: wherever the resolver waits at an entry whose item_type and rank_type
\* are both empty, the operator has an answer that fills one of the two fields
\* and leaves the other one empty, and an answer that fills neither.
C12_SingleFieldDeferral ==
    AtBothEmpty => /\ ENABLED (Next /\ FillsOne)
                   /\ ENABLED (Next /\ FillsNone)


\* The wizard is at its last entry.
AtLast == index = Len(pending) - 1

\* The states of the resolver's state machine, of the next state.
AwaitingNext(i) == pc' = "wizard" /\ index' = i

DoneNext == pc' = "done" /\ ended' = "finished" /\ index' = index

AbandonedNext == pc' = "done" /\ ended' = "abandoned" /\ index' = index

\* No step changes the index or an entry once the wizard is done or abandoned.
TerminalStep == pc = "done" => (index' = index /\ db' = db)

\* C17, as stated: in the wizard, submit moves to the next entry or, on the
\* last entry, to done; skip moves to the next entry; back (where its button
\* is enabled) moves to the entry before; abandon (a confirmed cancel) moves to
\* abandoned; done and abandoned are terminal.
C17_StateMachine ==
    [][/\ (event' = "on_save_next") =>
              (IF AtLast THEN DoneNext ELSE AwaitingNext(index + 1))
       /\ (event' \in {"on_skip", "on_skip:showinfo"}) => AwaitingNext(index + 1)
       /\ (event' = "on_prev" /\ index > 0) => AwaitingNext(index - 1)
       /\ (event' = "on_cancel:yes") => AbandonedNext
       /\ TerminalStep]_vars

\* C17, amended: as stated, but skip on the last entry and back on the first
\* entry leave the wizard at that entry, finish moves to done from any entry
\* and writes nothing, a declined cancel changes nothing, and abandon writes
\* nothing.
C17_Transitions ==
    [][/\ (event' = "on_save_next") =>
              (IF AtLast THEN DoneNext ELSE AwaitingNext(index + 1))
       /\ (event' \in {"on_skip", "on_skip:showinfo"}) =>
              (/\ AwaitingNext(IF AtLast THEN index ELSE index + 1)
               /\ (event' = "on_skip:showinfo") <=> AtLast)
       /\ (event' = "on_prev") =>
              AwaitingNext(IF index = 0 THEN 0 ELSE index - 1)
       /\ (event' = "on_finish") => (DoneNext /\ db' = db)
       /\ (event' = "on_cancel:yes") => (AbandonedNext /\ db' = db)
       /\ (event' = "on_cancel:no") => (AwaitingNext(index) /\ db' = db)
       /\ TerminalStep]_vars

\* C17: the operator went back to the first of several entries, skipped to the
\* last one and skipped there.
C17_Witness ==
    /\ event = "on_skip:showinfo"
    /\ pc = "wizard"
    /\ Len(pending) > 1
    /\ index = Len(pending) - 1

\* C20: in the wizard, a skip and a back change no field of any entry (and
\* nothing but the index); a step that changes an entry is a submit, and it
\* changes the entry at the current index only.
C20_SkipBackNeverWrite ==
    [][(pc = "wizard") =>
         /\ (event' \in {"on_prev", "on_skip", "on_skip:showinfo"}) =>
                (/\ db' = db
                 /\ UNCHANGED <<meta_file, pc, pending, ended, written>>)
         /\ (db' # db) =>
                (/\ event' = "on_save_next"
                 /\ Keys(db') = Keys(db)
                 /\ \A k \in Keys(db) \ {Current} : Get(db', k) = Get(db, k))]_vars

\* C20: the operator saved an entry, went back to it and skipped it, with
\* another entry still to fill.
C20_Witness ==
    /\ pc = "wizard"
    /\ event = "on_skip"
    /\ written # {}
    /\ index = 1
    /\ \A w \in written : w.key = pending[1]
    /\ Falsy(Get(db, Current).item_type) \/ Falsy(Get(db, Current).rank_type)

\* C21: the wizard is open only on a pending list that is not empty, and in
\* every state of the wizard, whatever the sequence of submit, skip, back,
\* finish and cancel, 0 <= index < len(pending): load_current and save_current
\* subscript the list inside its range.
C21_IndexInRange ==
    pc = "wizard" =>
        /\ pending # << >>
        /\ index \in 0..(Len(pending) - 1)

\* C21: after a submit the operator skipped on the last of two entries, and
\* the index stayed where it was.
C21_Witness ==
    /\ pc = "wizard"
    /\ event = "on_skip:showinfo"
    /\ index = Len(pending) - 1
    /\ Len(pending) = 2
    /\ written # {}

-----------------------------------------------------------------------------
(* SpecShare: two stores as Python holds them.  A by_id dict maps a key to *)
(* a reference to a StarwardMetaItem object, a field assignment changes    *)
(* the object, and so every dict that holds a reference to it.  A store    *)
(* is the record [heap, by_id].                                            *)

Refs(by_id) == {by_id[i].val : i \in 1..Len(by_id)}

\* The store a by_id dict of references stands for.
Deref(h, by_id) ==
    [i \in 1..Len(by_id) |-> [key |-> by_id[i].key, val |-> h[by_id[i].val]]]

\* A mutation of MergeItemRef: `into.by_id[iid] = s` for the new
\* StarwardMetaItem.
MergeItemShared(st, iid, sref) ==
    LET s == st.heap[sref] IN
    IF ~Has(st.by_id, iid)
    THEN [heap |-> st.heap, by_id |-> Append(st.by_id, [key |-> iid, val |-> sref])]
    ELSE [heap |-> [st.heap EXCEPT ![Get(st.by_id, iid)] =
                       FillMeta(@, s.name, s.item_type, s.rank_type)],
          by_id |-> st.by_id]

\* One iteration of the loop of merge_meta_db on the item (iid, s) of src, s
\* the object at sref: a missing key gets a new object, an old one is filled.
MergeItemRef(st, iid, sref) ==
    LET s == st.heap[sref] IN
    IF ~Has(st.by_id, iid)
    THEN [heap |-> Append(st.heap,
                     StarwardMetaItem(PyOr(s.name, ""), s.item_type, s.rank_type, iid)),
          by_id |-> Append(st.by_id, [key |-> iid, val |-> Len(st.heap) + 1])]
    ELSE [heap |-> [st.heap EXCEPT ![Get(st.by_id, iid)] =
                       FillMeta(@, s.name, s.item_type, s.rank_type)],
          by_id |-> st.by_id]

RECURSIVE MergeRefsFrom(_, _, _)
\* The loop of merge_meta_db from the i-th item of src.by_id on.
MergeRefsFrom(st, src_by_id, i) ==
    IF i > Len(src_by_id) THEN st
    ELSE MergeRefsFrom(MergeItemRef(st, src_by_id[i].key, src_by_id[i].val),
                       src_by_id, i + 1)

\* StarwardMetaDB.add_from_record on the store st.
AddRecordRef(st, rec) ==
    IF Falsy(rec.item_id) THEN st
    ELSE IF ~Has(st.by_id, rec.item_id)
    THEN [heap |-> Append(st.heap,
                     StarwardMetaItem(PyOr(rec.name, ""), rec.item_type,
                                      rec.rank_type, rec.item_id)),
          by_id |-> Append(st.by_id, [key |-> rec.item_id, val |-> Len(st.heap) + 1])]
    ELSE [heap |-> [st.heap EXCEPT ![Get(st.by_id, rec.item_id)] =
                       FillMeta(@, rec.name, rec.item_type, rec.rank_type)],
          by_id |-> st.by_id]

\* MetaFillWizard.save_current on the object at ref.
SaveCurrentRef(h, ref, var_type, var_rank) ==
    [h EXCEPT ![ref].item_type = IF Falsy(@) THEN var_type ELSE @,
              ![ref].rank_type = IF Falsy(@) THEN var_rank ELSE @]

ShareTargets ==
    {EmptyDB,
     <<Item("2", StarwardMetaItem("", None, "5", "2"))>>,
     <<Item("10", StarwardMetaItem("B", "", None, "10"))>>}
    \cup MiskeyedStores

ShareSources ==
    TwoEntryStores \cup MiskeyedStores
    \cup {<<Item("2", StarwardMetaItem("A", "weapon", "5", "2"))>>}

ShareRecords ==
    {StarwardRecord(i, n, t, r) :
        i \in ItemIds, n \in {"A", None}, t \in {"weapon", None}, r \in {"4", None}}

InitShare ==
    /\ \E t \in ShareTargets, s \in ShareSources :
          /\ heap = [i \in 1..Len(t) |-> t[i].val] \o [i \in 1..Len(s) |-> s[i].val]
          /\ target = [i \in 1..Len(t) |-> [key |-> t[i].key, val |-> i]]
          /\ source = [i \in 1..Len(s) |-> [key |-> s[i].key, val |-> Len(t) + i]]
          /\ source0 = s
    /\ copied = {}
    /\ db = EmptyDB
    /\ IdleStore /\ IdleTwice /\ IdleConv /\ IdleRun /\ IdleCall

\* merge_meta_db(target, source)
MergeShare ==
    /\ LET st == MergeRefsFrom([heap |-> heap, by_id |-> target], source, 1) IN
       /\ heap' = st.heap
       /\ target' = st.by_id
    /\ copied' = copied \cup (Keys(source) \ Keys(target))
    /\ UNCHANGED <<source, source0, exceptShare>>

\* target.add_from_record(rec)
AddShare ==
    /\ \E rec \in ShareRecords :
          LET st == AddRecordRef([heap |-> heap, by_id |-> target], rec) IN
          /\ heap' = st.heap
          /\ target' = st.by_id
    /\ UNCHANGED <<source, source0, copied, exceptShare>>

\* A submit of the resolver on a pending entry of target.
SaveShare ==
    /\ \E i \in 1..Len(target), var_type \in Range(ITEM_TYPES),
          var_rank \in Range(RANK_CHOICES) :
          /\ IsPending(heap[target[i].val])
          /\ heap' = SaveCurrentRef(heap, target[i].val, var_type, var_rank)
    /\ UNCHANGED <<target, source, source0, copied, exceptShare>>

NextShare == MergeShare \/ AddShare \/ SaveShare

SpecShare == InitShare /\ [][NextShare]_vars

\* C15: in every state after merge_meta_db(T, S) and any later fill of T (by
\* add_from_record, another merge or the resolver), S has the keys and the
\* field values it started with, and no entry of T is an entry of S.
C15_SourceUntouched ==
    /\ Deref(heap, source) = source0
    /\ Refs(target) \cap Refs(source) = {}

\* C15: an entry the merge created in T from S's has been filled afterwards.
C15_Witness ==
    \E k \in copied :
        /\ Falsy(Get(Deref(heap, source), k).item_type)
        /\ ~Falsy(Get(Deref(heap, target), k).item_type)


-----------------------------------------------------------------------------
(* SpecFile: one call of convert_snap_file_with_meta, statement by         *)
(* statement.                                                              *)

SnapJson(doc) == [kind |-> "json", doc |-> doc]

\* A file just opened with mode "w": created or truncated, nothing written.
EmptyFile == [kind |-> "empty"]

\* What the output path holds before the call, when it holds something.
OldFile == [kind |-> "old"]

\* read_snap_hutao_uigf4: the document read, or the raise (json.load or
\* model_validate raises).
read_snap_hutao_uigf4(file) ==
    IF file.kind = "json"
    THEN [raised |-> FALSE, uigf |-> file.doc]
    ELSE [raised |-> TRUE]

\* model_dump(exclude_none=True, exclude_defaults=True) of a StarwardRecord:
\* the fields that are not None; extra when it is not the default {}.
DumpRecord(r) ==
    LET keep == {f \in DOMAIN r :
                    IF f \in {"extra", "model_extra"} THEN r[f] # EmptyDict
                    ELSE r[f] # None}
    IN  [f \in keep |-> r[f]]

\* ... of a StarwardUserBundle: timezone when it is not None, list when it is
\* not the default [].
DumpBundle(b) ==
    LET keep == {"uid", "lang"}
                \cup (IF b.timezone # << >> THEN {"timezone"} ELSE {})
                \cup (IF b.list # << >> THEN {"list"} ELSE {})
    IN  [f \in keep |->
            IF f = "list" THEN [i \in 1..Len(b.list) |-> DumpRecord(b.list[i])]
            ELSE IF f = "timezone" THEN b.timezone[1]
            ELSE b[f]]

\* ... of the StarwardUIGF: hk4e when it is not the default []; hkrpg and nap
\* are [] and their default is None.
model_dump(doc) ==
    LET keep == {"info", "hkrpg", "nap"}
                \cup (IF doc.hk4e # << >> THEN {"hk4e"} ELSE {})
    IN  [f \in keep |->
            IF f = "hk4e" THEN [i \in 1..Len(doc.hk4e) |-> DumpBundle(doc.hk4e[i])]
            ELSE doc[f]]

\* A mutation of convert_snap_file_with_meta: the output file is opened first.
convert_snap_file_open_first ==
    <<"open", "read_starward_meta_db", "read_snap_hutao_uigf4",
      "convert_snap_hutao_to_starward", "json.dump">>

\* The statements of convert_snap_file_with_meta, in their order.
convert_snap_file_with_meta ==
    <<"read_starward_meta_db", "read_snap_hutao_uigf4",
      "convert_snap_hutao_to_starward", "open", "json.dump">>

\* The call is at the statement stmt.
At(stmt) ==
    /\ conv = "running"
    /\ line \in 1..Len(convert_snap_file_with_meta)
    /\ convert_snap_file_with_meta[line] = stmt

\* On to the next statement, or the return after the last one.
Advance ==
    /\ line' = line + 1
    /\ conv' = IF line = Len(convert_snap_file_with_meta) THEN "returned" ELSE conv

\* The exception leaves the function.
Raise == conv' = "raised" /\ line' = line

\* The documents of the call: those of one user bundle at most.
FileDocs == {d \in SnapDocs : Len(d.hk4e) <= 1}

InitFile ==
    /\ meta_db_file \in {AbsentFile, MalformedFile} \cup {MetaJson(d) : d \in ConvStores}
    /\ snap_file \in {AbsentFile, MalformedFile} \cup {SnapJson(d) : d \in FileDocs}
    /\ out_starward_file \in {AbsentFile, OldFile}
    /\ out_file0 = out_starward_file
    /\ line = 1
    /\ db = EmptyDB
    /\ snap = << >>
    /\ conv = "running"
    /\ out = << >>
    /\ err = None
    /\ IdleStore /\ IdleTwice /\ IdleRun /\ IdleShare

ReadMetaDb ==
    /\ At("read_starward_meta_db")
    /\ LET m == read_starward_meta_db(meta_db_file) IN
       IF m.raised THEN Raise /\ UNCHANGED db ELSE Advance /\ db' = m.db
    /\ UNCHANGED <<snap, out, err, meta_db_file, snap_file, out_starward_file,
                   out_file0, exceptCall>>

ReadSnap ==
    /\ At("read_snap_hutao_uigf4")
    /\ LET u == read_snap_hutao_uigf4(snap_file) IN
       IF u.raised THEN Raise /\ UNCHANGED snap ELSE Advance /\ snap' = u.uigf
    /\ UNCHANGED <<db, out, err, meta_db_file, snap_file, out_starward_file,
                   out_file0, exceptCall>>

ConvertDoc ==
    /\ At("convert_snap_hutao_to_starward")
    /\ LET r == convert_snap_hutao_to_starward(snap, db) IN
       IF r.raised
       THEN Raise /\ err' = r.iid /\ UNCHANGED out
       ELSE Advance /\ out' = <<r.doc>> /\ UNCHANGED err
    /\ UNCHANGED <<db, snap, meta_db_file, snap_file, out_starward_file,
                   out_file0, exceptCall>>

\* open(out_starward_file, "w")
OpenOut ==
    /\ At("open")
    /\ out_starward_file' = EmptyFile
    /\ Advance
    /\ UNCHANGED <<db, snap, out, err, meta_db_file, snap_file, out_file0,
                   exceptCall>>

\* json.dump(starward_uigf.model_dump(...), f), and the file is closed.
DumpOut ==
    /\ At("json.dump")
    /\ out_starward_file' = [kind |-> "json", doc |-> model_dump(out[1])]
    /\ Advance
    /\ UNCHANGED <<db, snap, out, err, meta_db_file, snap_file, out_file0,
                   exceptCall>>

NextFile == ReadMetaDb \/ ReadSnap \/ ConvertDoc \/ OpenOut \/ DumpOut

SpecFile == InitFile /\ [][NextFile]_vars

\* C18: when reading the store, reading the Vendor-B file or the conversion
\* raises, the output path holds what it held before the call (the file was
\* never opened); and the output path holds something else only once the
\* whole document has been converted.
C18_FailedWritesNothing ==
    /\ conv = "raised" => out_starward_file = out_file0
    /\ out_starward_file # out_file0 => out # << >>

\* C18: the conversion raised on the second record, after the first one was
\* converted, and a file was at the output path.
C18_Witness ==
    /\ conv = "raised"
    /\ snap # << >>
    /\ Len(Flat(snap.hk4e)) = 2
    /\ LackingRecords = {2}
    /\ out_file0 = OldFile


-----------------------------------------------------------------------------
(* SpecKeys: a store that is empty, loaded from a store file whose entries *)
(* are under their own item_id, or built from a mapping file, and then     *)
(* any sequence of add_from_record, merge_meta_db, resolver writes and     *)
(* builds of a new store.                                                  *)

\* Every entry's item_id is the key it is stored under.
KeyedById(d) == \A i \in 1..Len(d) : d[i].val.item_id = d[i].key

\* Store files whose entries are under their own item_id.
KeyedMetaFiles ==
    {MetaJson(<<Item("10", StarwardMetaItem("B", "weapon", None, "10")),
                Item("2", StarwardMetaItem("A", None, None, "2"))>>),
     MetaJson(<<Item("2", StarwardMetaItem("", None, "5", "2"))>>)}

KeysMappingFiles ==
    {MappingJson(<<Item("A", IdList(<<JInt(2)>>)), Item("B", OneId(JInt(3)))>>)}

\* The stores merged from: built from a mapping, or loaded from any store
\* file, also one with an entry under another key than its item_id.
KeysSources ==
    {build_meta_db_from_mapping(f).db : f \in KeysMappingFiles}
    \cup MiskeyedStores

KeysRecords ==
    {StarwardRecord("10", "A", "weapon", None),
     StarwardRecord("10", None, None, "4"),
     StarwardRecord(None, "A", "weapon", "5"),
     StarwardRecord("", "B", "character", "4")}

InitKeys ==
    /\ db \in {EmptyDB}
              \cup {read_starward_meta_db(f).db : f \in KeyedMetaFiles}
    /\ op = "init"
    /\ offer = FALSE
    /\ IdleTwice /\ IdleConv /\ IdleRun /\ IdleShare /\ IdleCall

\* db = build_meta_db_from_mapping(mapping_file): a new store.
KeysBuild ==
    /\ \E f \in KeysMappingFiles : db' = build_meta_db_from_mapping(f).db
    /\ op' = "build_meta_db_from_mapping"
    /\ UNCHANGED <<offer, exceptStore>>

\* db.add_from_record(rec)
KeysAdd ==
    /\ \E rec \in KeysRecords : db' = add_from_record(db, rec)
    /\ op' = "add_from_record"
    /\ UNCHANGED <<offer, exceptStore>>

\* merge_meta_db(db, src)
KeysMerge ==
    /\ \E src_db \in KeysSources : db' = merge_meta_db(db, src_db)
    /\ op' = "merge_meta_db"
    /\ UNCHANGED <<offer, exceptStore>>

\* prompt_missing_meta_fields(db): a submit of the wizard on a pending entry,
\* or an answer of the CLI that sets one empty field of a pending entry.
KeysResolve ==
    /\ \E i \in 1..Len(PendingOf(db)), var_type \in Range(ITEM_TYPES),
          var_rank \in {RANK_CHOICES[5]} :
          LET iid == PendingOf(db)[i] IN
          \/ db' = save_current(db, iid, var_type, var_rank)
          \/ /\ Falsy(Get(db, iid).item_type)
             /\ db' = Put(db, iid, [Get(db, iid) EXCEPT !.item_type = var_type])
          \/ /\ Falsy(Get(db, iid).rank_type)
             /\ db' = Put(db, iid, [Get(db, iid) EXCEPT !.rank_type = var_rank])
    /\ op' = "prompt_missing_meta_fields"
    /\ UNCHANGED <<offer, exceptStore>>

NextKeys == KeysBuild \/ KeysAdd \/ KeysMerge \/ KeysResolve

SpecKeys == InitKeys /\ [][NextKeys]_vars

\* C22: after every operation each entry's item_id is the key it is stored
\* under; and an operation on a store (add_from_record, merge_meta_db, a
\* resolver write) keeps every entry, under its key and with its item_id.
C22_KeyIdAgreement ==
    [][/\ KeyedById(db')
       /\ (op' # "build_meta_db_from_mapping") =>
             (\A k \in Keys(db) :
                 /\ Has(db', k)
                 /\ Get(db', k).item_id = Get(db, k).item_id)]_vars

\* C22: the store holds an entry of the mapping and an entry merged from a
\* source that holds it under another key than its item_id, and the resolver
\* has written to the store.
C22_Witness ==
    /\ op = "prompt_missing_meta_fields"
    /\ Has(db, "3")
    /\ \E m \in MiskeyedStores :
          /\ Has(db, m[1].key)
          /\ Get(db, m[1].key).name = m[1].val.name
          /\ Get(db, m[1].key).rank_type = m[1].val.rank_type
          /\ ~Falsy(Get(db, m[1].key).item_type)

=============================================================================
